---- MODULE Spec2Model ----
(***************************************************************************)
(* A model of the YouTube caption service (src/main.py):                   *)
(*   - chunk_text and paginate_chunks, the chunker and the paginator;      *)
(*   - the language selection of get_youtube_caption.                      *)
(* Python values are modelled as follows: a str is a sequence of           *)
(* characters, a list is a sequence (0-based positions are shifted by one),*)
(* a dict is a record, and an Optional value is a sequence of length 0     *)
(* (None) or 1 (the value).                                                *)
(***************************************************************************)
EXTENDS Integers, Sequences, FiniteSets, TLC

\* ------------------------------------------------------------------ bounds

\* longest transcript text, in characters
MaxLen == 4
\* largest chunk size a request asks for
MaxSize == 5
\* largest start_index a request asks for
MaxStart == 6
\* largest max_chunks a request asks for
MaxChunks == 5
\* how far below zero size, start_index and max_chunks go
NegRange == 2

\* most variants in a transcript list
MaxVariants == 2
\* most codes in a requested language list
MaxLangs == 2

\* DEFAULT_CHUNK_SIZE and DEFAULT_MAX_CHUNKS, without the environment overrides
DEFAULT_CHUNK_SIZE == 5000

DEFAULT_MAX_CHUNKS == 5

\* the language codes of variants, and the codes requests ask for
VariantCodes == {"en", "es", "vi"}

RequestCodes == {"en", "es", "de"}

\* the characters of a transcript text
Alphabet == {"a", "b"}

\* ------------------------------------------------------------ Python values

\* Optional[int]: None, or an integer
None == << >>

Some(n) == << n >>

Min(a, b) == IF a <= b THEN a ELSE b

Max(a, b) == IF a >= b THEN a ELSE b

\* Python's normalisation of one slice bound i for a sequence of length n:
\* a negative bound counts from the end, and every bound is clamped to 0..n
SliceBound(i, n) == IF i < 0 THEN Max(0, n + i) ELSE Min(i, n)

\* Python's s[lo:hi] (step 1)
PySlice(s, lo, hi) ==
    LET l == SliceBound(lo, Len(s))
        h == SliceBound(hi, Len(s))
    IN  IF l >= h THEN << >> ELSE SubSeq(s, l + 1, h)

\* Python's list(range(i, stop, step)) for step > 0
RECURSIVE PyRange(_, _, _)
PyRange(i, stop, step) ==
    IF i >= stop THEN << >> ELSE << i >> \o PyRange(i + step, stop, step)

\* --------------------------------------------------------------- chunk_text

\* a mutation of chunk_text: the slice is one character short
chunk_text_short(text, size) ==
    IF Len(text) = 0 \/ size <= 0
    THEN << >>
    ELSE LET starts == PyRange(0, Len(text), size)
         IN  [k \in 1..Len(starts) |->
                 [index |-> k - 1,
                  text  |-> PySlice(text, starts[k], starts[k] + size - 1)]]

\* a mutation of chunk_text: the indices start at 1
chunk_text_from_one(text, size) ==
    IF Len(text) = 0 \/ size <= 0
    THEN << >>
    ELSE LET starts == PyRange(0, Len(text), size)
         IN  [k \in 1..Len(starts) |->
                 [index |-> k,
                  text  |-> PySlice(text, starts[k], starts[k] + size)]]

\* a mutation of chunk_text: an empty text gives one empty chunk
chunk_text_empty_chunk(text, size) ==
    IF size <= 0
    THEN << >>
    ELSE IF Len(text) = 0
    THEN << [index |-> 0, text |-> << >>] >>
    ELSE LET starts == PyRange(0, Len(text), size)
         IN  [k \in 1..Len(starts) |->
                 [index |-> k - 1,
                  text  |-> PySlice(text, starts[k], starts[k] + size)]]

\* chunk_text(text, size): the list of {"index", "text"} dicts
chunk_text(text, size) ==
    IF Len(text) = 0 \/ size <= 0
    THEN << >>
    ELSE LET starts == PyRange(0, Len(text), size)
         IN  [k \in 1..Len(starts) |->
                 [index |-> k - 1,
                  text  |-> PySlice(text, starts[k], starts[k] + size)]]

\* ---------------------------------------------------------- paginate_chunks

\* a mutation of paginate_chunks: start is not clamped at 0
paginate_chunks_noclamp(chunks, start, max_chunks) ==
    IF Len(chunks) = 0
    THEN [chunks |-> << >>, next_index |-> None, total_chunks |-> 0]
    ELSE LET total == Len(chunks)
             end   == Min(start + max_chunks, total)
         IN  [chunks       |-> PySlice(chunks, start, end),
              next_index   |-> IF end < total THEN Some(end) ELSE None,
              total_chunks |-> total]

\* a mutation of paginate_chunks: the window is one chunk too long
paginate_chunks_long(chunks, start, max_chunks) ==
    IF Len(chunks) = 0
    THEN [chunks |-> << >>, next_index |-> None, total_chunks |-> 0]
    ELSE LET total == Len(chunks)
             s     == Max(0, start)
             end   == Min(s + max_chunks + 1, total)
         IN  [chunks       |-> PySlice(chunks, s, end),
              next_index   |-> IF end < total THEN Some(end) ELSE None,
              total_chunks |-> total]

\* a mutation of paginate_chunks: next_index is also given at the end
paginate_chunks_next_at_end(chunks, start, max_chunks) ==
    IF Len(chunks) = 0
    THEN [chunks |-> << >>, next_index |-> None, total_chunks |-> 0]
    ELSE LET total == Len(chunks)
             s     == Max(0, start)
             end   == Min(s + max_chunks, total)
         IN  [chunks       |-> PySlice(chunks, s, end),
              next_index   |-> IF end <= total THEN Some(end) ELSE None,
              total_chunks |-> total]

\* a mutation of paginate_chunks: total_chunks counts the page
paginate_chunks_page_total(chunks, start, max_chunks) ==
    IF Len(chunks) = 0
    THEN [chunks |-> << >>, next_index |-> None, total_chunks |-> 0]
    ELSE LET total == Len(chunks)
             s     == Max(0, start)
             end   == Min(s + max_chunks, total)
         IN  [chunks       |-> PySlice(chunks, s, end),
              next_index   |-> IF end < total THEN Some(end) ELSE None,
              total_chunks |-> Len(PySlice(chunks, s, end))]

\* a mutation of paginate_chunks: next_index skips a chunk
paginate_chunks_skip(chunks, start, max_chunks) ==
    IF Len(chunks) = 0
    THEN [chunks |-> << >>, next_index |-> None, total_chunks |-> 0]
    ELSE LET total == Len(chunks)
             s     == Max(0, start)
             end   == Min(s + max_chunks, total)
         IN  [chunks       |-> PySlice(chunks, s, end),
              next_index   |-> IF end < total THEN Some(end + 1) ELSE None,
              total_chunks |-> total]

\* paginate_chunks(chunks, start, max_chunks): the page dict
paginate_chunks(chunks, start, max_chunks) ==
    IF Len(chunks) = 0
    THEN [chunks |-> << >>, next_index |-> None, total_chunks |-> 0]
    ELSE LET total == Len(chunks)
             s     == Max(0, start)
             end   == Min(s + max_chunks, total)
         IN  [chunks       |-> PySlice(chunks, s, end),
              next_index   |-> IF end < total THEN Some(end) ELSE None,
              total_chunks |-> total]

\* --------------------------------------------------------- extract_video_id

\* str.lstrip('/') on a sequence of characters
RECURSIVE LStripSlash(_)
LStripSlash(path) ==
    IF Len(path) > 0 /\ Head(path) = "/" THEN LStripSlash(Tail(path)) ELSE path

\* extract_video_id that strips one leading slash only
extract_video_id_one_slash(url) ==
    IF ~url.given THEN None
    ELSE IF ~url.parses THEN None
    ELSE IF url.hostname \in {"youtu.be"}
         THEN Some(IF Len(url.path) > 0 /\ Head(url.path) = "/"
                   THEN Tail(url.path) ELSE url.path)
    ELSE IF url.hostname \in {"www.youtube.com", "youtube.com"}
         THEN IF Len(url.v) > 0 THEN Some(url.v[1]) ELSE None
    ELSE None

\* extract_video_id(url): None, or the id. A url is modelled by what urlparse
\* and parse_qs make of it: its hostname, its path and the values of its query
\* parameter v (an empty url is the url with given = FALSE, a url that
\* urlparse raises on is one with parses = FALSE: the except clause returns None).
extract_video_id(url) ==
    IF ~url.given THEN None
    ELSE IF ~url.parses THEN None
    ELSE IF url.hostname \in {"youtu.be"} THEN Some(LStripSlash(url.path))
    ELSE IF url.hostname \in {"www.youtube.com", "youtube.com"}
         THEN IF Len(url.v) > 0 THEN Some(url.v[1]) ELSE None
    ELSE None

\* ------------------------------------------------ the transcript list (library)

\* the first of the positions hits, 0 when there is none: the variant a
\* "for t in transcript_list: if ...: ...; break" loop stops at
FirstIndex(hits) ==
    IF hits = {} THEN 0 ELSE CHOOSE i \in hits : \A j \in hits : i <= j

\* TranscriptList._find_transcript(language_codes, transcript_dicts): for each
\* code in order, the variant with that code in the first kind that has one;
\* 0 stands for NoTranscriptFound. kinds lists is_generated values in lookup order.
RECURSIVE find_in(_, _, _)
find_in(tl, language_codes, kinds) ==
    IF Len(language_codes) = 0 THEN 0
    ELSE LET code == Head(language_codes)
             hit(k) == FirstIndex({ i \in 1..Len(tl) :
                           /\ tl[i].language_code = code
                           /\ tl[i].is_generated = kinds[k] })
             hits == { k \in 1..Len(kinds) : hit(k) # 0 }
         IN  IF hits # {}
             THEN hit(CHOOSE k \in hits : \A j \in hits : k <= j)
             ELSE find_in(tl, Tail(language_codes), kinds)

\* transcript_list.find_transcript(codes): manually created before generated
find_transcript(tl, language_codes) == find_in(tl, language_codes, << FALSE, TRUE >>)

find_manually_created_transcript(tl, language_codes) ==
    find_in(tl, language_codes, << FALSE >>)

find_generated_transcript(tl, language_codes) ==
    find_in(tl, language_codes, << TRUE >>)

\* ------------------------------------------------------- language selection

\* "if languages_param:" : None, "" and [] are falsy
Truthy(lp) ==
    \/ lp.kind = "str" /\ lp.value # ""
    \/ lp.kind = "list" /\ Len(lp.value) > 0

\* a str becomes a one-element list
requested_languages(lp) == IF lp.kind = "str" THEN << lp.value >> ELSE lp.value

\* the outcome of a selection: the position of the chosen variant in the
\* transcript list (0: NoTranscriptFound), the rule that chose it, and the code
\* translate is to be called with (None: no translate call)
Chosen(i, r) == [transcript |-> i, rule |-> r, translate |-> None]

NotFound == [transcript |-> 0, rule |-> "none", translate |-> None]

\* before the selection has run
Unselected == [transcript |-> 0, rule |-> "unselected", translate |-> None]

\* a mutation of select_requested: the translation scan comes before the
\* direct match
select_requested_translate_first(tl, requested) ==
    LET direct == find_transcript(tl, requested)
        available == FirstIndex({ i \in 1..Len(tl) :
                         /\ tl[i].is_translatable
                         /\ requested[1] \in tl[i].translation_languages })
    IN  IF available # 0
        THEN [transcript |-> available, rule |-> "translation",
              translate |-> Some(requested[1])]
        ELSE IF direct # 0 THEN Chosen(direct, "direct")
        ELSE NotFound

\* a mutation of select_requested: the translation target is the last
\* requested code
select_requested_last_code(tl, requested) ==
    LET direct == find_transcript(tl, requested)
        available == FirstIndex({ i \in 1..Len(tl) :
                         /\ tl[i].is_translatable
                         /\ requested[Len(requested)] \in tl[i].translation_languages })
    IN  IF direct # 0 THEN Chosen(direct, "direct")
        ELSE IF available # 0
        THEN [transcript |-> available, rule |-> "translation",
              translate |-> Some(requested[Len(requested)])]
        ELSE NotFound

\* a mutation of select_requested: with nothing to serve, the first variant
\* of the list is served
select_requested_any(tl, requested) ==
    LET direct == find_transcript(tl, requested)
        available == FirstIndex({ i \in 1..Len(tl) :
                         /\ tl[i].is_translatable
                         /\ requested[1] \in tl[i].translation_languages })
    IN  IF direct # 0 THEN Chosen(direct, "direct")
        ELSE IF available # 0
        THEN [transcript |-> available, rule |-> "translation",
              translate |-> Some(requested[1])]
        ELSE IF Len(tl) > 0 THEN Chosen(1, "direct")
        ELSE NotFound

\* the branch of get_youtube_caption for requested languages: a direct match,
\* else the first translatable variant with requested[0] among its targets
select_requested(tl, requested) ==
    LET direct == find_transcript(tl, requested)
        available == FirstIndex({ i \in 1..Len(tl) :
                         /\ tl[i].is_translatable
                         /\ requested[1] \in tl[i].translation_languages })
    IN  IF direct # 0 THEN Chosen(direct, "direct")
        ELSE IF available # 0
        THEN [transcript |-> available, rule |-> "translation",
              translate |-> Some(requested[1])]
        ELSE NotFound

\* a mutation of select_best: generated English is tried before the other
\* manually created variants
select_best_generated_en_first(tl) ==
    LET manual_en == find_manually_created_transcript(tl, << "en" >>)
        any_manual == FirstIndex({ i \in 1..Len(tl) : ~tl[i].is_generated })
        generated_en == find_generated_transcript(tl, << "en" >>)
        any_generated == FirstIndex({ i \in 1..Len(tl) : tl[i].is_generated })
    IN  IF manual_en # 0 THEN Chosen(manual_en, "manual_en")
        ELSE IF generated_en # 0 THEN Chosen(generated_en, "generated_en")
        ELSE IF any_manual # 0 THEN Chosen(any_manual, "any_manual")
        ELSE IF any_generated # 0 THEN Chosen(any_generated, "any_generated")
        ELSE IF Len(tl) > 0 THEN Chosen(1, "any")
        ELSE NotFound

\* a mutation of select_best: without the "first auto-generated" loop
select_best_no_any_generated(tl) ==
    LET manual_en == find_manually_created_transcript(tl, << "en" >>)
        any_manual == FirstIndex({ i \in 1..Len(tl) : ~tl[i].is_generated })
        manual == IF manual_en # 0 THEN Chosen(manual_en, "manual_en")
                  ELSE IF any_manual # 0 THEN Chosen(any_manual, "any_manual")
                  ELSE NotFound
        generated_en == find_generated_transcript(tl, << "en" >>)
        generated == IF generated_en # 0 THEN Chosen(generated_en, "generated_en")
                     ELSE NotFound
    IN  IF manual.transcript # 0 THEN manual
        ELSE IF generated.transcript # 0 THEN generated
        ELSE IF Len(tl) > 0 THEN Chosen(1, "any")
        ELSE NotFound

\* the branch of get_youtube_caption for no requested language
select_best(tl) ==
    LET manual_en == find_manually_created_transcript(tl, << "en" >>)
        any_manual == FirstIndex({ i \in 1..Len(tl) : ~tl[i].is_generated })
        \* transcript after the "manually created" block
        manual == IF manual_en # 0 THEN Chosen(manual_en, "manual_en")
                  ELSE IF any_manual # 0 THEN Chosen(any_manual, "any_manual")
                  ELSE NotFound
        generated_en == find_generated_transcript(tl, << "en" >>)
        any_generated == FirstIndex({ i \in 1..Len(tl) : tl[i].is_generated })
        \* transcript after the "auto-generated" block
        generated == IF generated_en # 0 THEN Chosen(generated_en, "generated_en")
                     ELSE IF any_generated # 0
                     THEN Chosen(any_generated, "any_generated")
                     ELSE NotFound
    IN  IF manual.transcript # 0 THEN manual
        ELSE IF generated.transcript # 0 THEN generated
        ELSE IF Len(tl) > 0 THEN Chosen(1, "any")
        ELSE NotFound

\* the language selection of get_youtube_caption
select_transcript(lp, tl) ==
    IF Truthy(lp) THEN select_requested(tl, requested_languages(lp))
    ELSE select_best(tl)

\* the status the except clauses of get_youtube_caption give an exception
status_of(exc) ==
    CASE exc = "HTTPException400"    -> 400
      [] exc = "VideoUnavailable"    -> 404
      [] exc = "TranscriptsDisabled" -> 403
      [] exc = "NoTranscriptFound"   -> 404
      [] exc = "ValueError"          -> 400
      [] OTHER                       -> 500

\* " ".join(snippet.text for snippet in fetched_transcript)
RECURSIVE JoinSpace(_)
JoinSpace(snippets) ==
    IF Len(snippets) = 0 THEN << >>
    ELSE IF Len(snippets) = 1 THEN Head(snippets)
    ELSE Head(snippets) \o << " " >> \o JoinSpace(Tail(snippets))

\* ------------------------------------------------------------------- state

VARIABLES
    phase,            \* where the chunk-and-paginate computation stands
    text,             \* full_text, the transcript text
    size,             \* chunk_size
    all_chunks,       \* the result of chunk_text
    start,            \* start_index
    max_chunks,       \* max_chunks
    page_data,        \* the result of paginate_chunks
    rpc,              \* where get_youtube_caption stands in the request
    url,              \* request.url
    video_id,         \* the result of extract_video_id
    languages_param,  \* request.language
    transcript_list,  \* the result of ytt_api.list(video_id)
    selection,        \* how the transcript was selected
    transcript,       \* the transcript that is fetched
    calls,            \* the calls made to the transcript source
    response,         \* the response of the request
    API_KEY,          \* the configured secret ("": not configured)
    authorization,    \* the Authorization header of the request
    client,           \* a client that pages through a chunk list
    reqs              \* the requests that are handled concurrently

pvars == << phase, text, size, all_chunks, start, max_chunks, page_data >>

rvars == << rpc, url, video_id, languages_param, transcript_list, selection,
            transcript, calls, response >>

\* the variables of the authentication, of the paging client and of the
\* concurrent requests
xvars == << API_KEY, authorization, client, reqs >>

vars == << phase, text, size, all_chunks, start, max_chunks, page_data,
           rpc, url, video_id, languages_param, transcript_list, selection,
           transcript, calls, response, API_KEY, authorization, client, reqs >>

\* every text of at most MaxLen characters
Texts == UNION { [1..n -> Alphabet] : n \in 0..MaxLen }

NoPage == [chunks |-> << >>, next_index |-> None, total_chunks |-> 0]

NoUrl == [given |-> FALSE, parses |-> TRUE, hostname |-> "", path |-> << >>, v |-> << >>]

NoLanguage == [kind |-> "none", value |-> << >>]

NoTranscript == [language_code |-> "", is_generated |-> FALSE, translated |-> FALSE]

\* no call made yet; failed names the call that raised ("": none) and raised
\* the exception it raised
NoCalls == [list |-> 0, translate |-> 0, fetch |-> 0, failed |-> "", raised |-> ""]

NoResponse == [status |-> 0]

\* a request without an Authorization header
NoHeader == [present |-> FALSE, scheme |-> "", credentials |-> ""]

\* a request with a bearer token
BearerHeader(token) == [present |-> TRUE, scheme |-> "Bearer", credentials |-> token]

\* the client has made no call yet
NoClient == [calls |-> 0, start_used |-> 0, pages |-> << >>]

\* --------------------------------------- the chunker and paginator on their own

\* a text and a chunk size have arrived; nothing is computed yet
PageInit ==
    /\ phase = "text"
    /\ text \in Texts
    /\ size \in (0 - NegRange)..MaxSize
    /\ all_chunks = << >>
    /\ start = 0
    /\ max_chunks = 0
    /\ page_data = NoPage
    /\ rpc = "idle"
    /\ url = NoUrl
    /\ video_id = None
    /\ languages_param = NoLanguage
    /\ transcript_list = << >>
    /\ selection = Unselected
    /\ transcript = NoTranscript
    /\ calls = NoCalls
    /\ response = NoResponse
    /\ API_KEY = ""
    /\ authorization = NoHeader
    /\ client = NoClient
    /\ reqs = << >>

\* all_chunks = chunk_text(full_text, chunk_size)
ChunkText ==
    /\ phase = "text"
    /\ all_chunks' = chunk_text(text, size)
    /\ phase' = "chunked"
    /\ UNCHANGED << text, size, start, max_chunks, page_data >>
    /\ UNCHANGED rvars
    /\ UNCHANGED xvars

\* page_data = paginate_chunks(all_chunks, start_index, max_chunks)
PaginateChunks ==
    /\ phase = "chunked"
    /\ \E st \in (0 - NegRange)..MaxStart, mc \in (0 - NegRange)..MaxChunks :
          /\ start' = st
          /\ max_chunks' = mc
          /\ page_data' = paginate_chunks(all_chunks, st, mc)
    /\ phase' = "paged"
    /\ UNCHANGED << text, size, all_chunks >>
    /\ UNCHANGED rvars
    /\ UNCHANGED xvars

PageNext == ChunkText \/ PaginateChunks

PageSpec == PageInit /\ [][PageNext]_vars

\* ------------------------------------------------- the request, its inputs

\* the urls of requests: short and long form, a watch url without v, another
\* host, and no url
Urls ==
    { [given |-> TRUE, parses |-> TRUE, hostname |-> "youtu.be",
       path |-> << "/", "x" >>, v |-> << >>],
      [given |-> TRUE, parses |-> TRUE, hostname |-> "youtu.be",
       path |-> << "/" >>, v |-> << >>],
      [given |-> TRUE, parses |-> TRUE, hostname |-> "www.youtube.com",
       path |-> << "/", "w" >>, v |-> << << "x" >> >>],
      [given |-> TRUE, parses |-> TRUE, hostname |-> "youtube.com",
       path |-> << "/", "w" >>, v |-> << >>],
      [given |-> TRUE, parses |-> TRUE, hostname |-> "example.com",
       path |-> << "/", "x" >>, v |-> << >>],
      NoUrl }

\* the sequences over S of at most n elements, no element twice
DistinctSeqs(S, n) ==
    { q \in UNION { [1..k -> S] : k \in 0..n } :
        \A i, j \in 1..Len(q) : i # j => q[i] # q[j] }

\* request.language: absent, a str (possibly empty), or a list of codes
LanguageParams ==
    { NoLanguage }
    \cup { [kind |-> "str", value |-> c] : c \in RequestCodes \cup { "" } }
    \cup { [kind |-> "list", value |-> q] : q \in DistinctSeqs(RequestCodes, MaxLangs) }

\* what a variant can be translated into: nothing, or one of these sets
Translations ==
    { [is_translatable |-> FALSE, translation_languages |-> {}],
      [is_translatable |-> TRUE, translation_languages |-> { "en" }],
      [is_translatable |-> TRUE, translation_languages |-> { "es", "de" }] }

\* the variants of one kind (manually created or generated)
Variants(generated) ==
    { [language_code |-> c, is_generated |-> generated,
       is_translatable |-> tr.is_translatable,
       translation_languages |-> tr.translation_languages] :
        c \in VariantCodes, tr \in Translations }

\* the variants of one kind as the library lists them: one per language code
VariantSeqs(generated) ==
    { q \in UNION { [1..k -> Variants(generated)] : k \in 0..MaxVariants } :
        \A i, j \in 1..Len(q) : i # j => q[i].language_code # q[j].language_code }

\* the transcript lists the library returns: the manually created variants,
\* then the generated ones
TranscriptLists ==
    { tl \in { m \o g : m \in VariantSeqs(FALSE), g \in VariantSeqs(TRUE) } :
        Len(tl) <= MaxVariants }

\* the exceptions a call to the transcript source raises
UpstreamErrors ==
    { "VideoUnavailable", "TranscriptsDisabled", "NoTranscriptFound",
      "ValueError", "Exception" }

\* the snippet texts a fetch returns
SnippetLists == { << >>, << << "a", "b" >>, << "a" >> >> }

\* chunk_size, max_chunks and start_index of requests: the defaults, and a
\* request for the second page of one chunk of two characters
PageParams ==
    { [chunk_size |-> DEFAULT_CHUNK_SIZE, max_chunks |-> DEFAULT_MAX_CHUNKS,
       start_index |-> 0],
      [chunk_size |-> 2, max_chunks |-> 1, start_index |-> 1] }

\* ------------------------------------------------------ get_youtube_caption

\* the HTTPException the except clauses raise for exc
ErrorResponse(exc) == [status |-> status_of(exc), detail |-> exc]

Init ==
    /\ rpc = "received"
    /\ url \in Urls
    /\ languages_param \in LanguageParams
    /\ video_id = None
    /\ transcript_list = << >>
    /\ selection = Unselected
    /\ transcript = NoTranscript
    /\ calls = NoCalls
    /\ response = NoResponse
    /\ phase = "request"
    /\ text = << >>
    /\ size = 0
    /\ all_chunks = << >>
    /\ start = 0
    /\ max_chunks = 0
    /\ page_data = NoPage
    /\ API_KEY = ""
    /\ authorization = BearerHeader("k1")
    /\ client = NoClient
    /\ reqs = << >>

\* video_id = extract_video_id(request.url); "if not video_id" raises the 400
ExtractVideoId ==
    /\ rpc = "received"
    /\ video_id' = extract_video_id(url)
    /\ IF video_id' = None \/ video_id' = Some(<< >>)
       THEN /\ response' = ErrorResponse("HTTPException400")
            /\ rpc' = "done"
       ELSE /\ response' = response
            /\ rpc' = "extracted"
    /\ UNCHANGED << url, languages_param, transcript_list, selection, transcript,
                    calls >>
    /\ UNCHANGED pvars
    /\ UNCHANGED xvars

\* a mutation of ListTranscripts: a listing that raised is tried again
ListTranscripts_retry ==
    /\ rpc = "extracted"
    /\ calls.list < 3
    /\ \/ \E tl \in TranscriptLists :
             /\ calls' = [calls EXCEPT !.list = @ + 1]
             /\ transcript_list' = tl
             /\ rpc' = "listed"
             /\ response' = response
       \/ \E exc \in UpstreamErrors :
             /\ calls' = [calls EXCEPT !.list = @ + 1, !.failed = "list",
                                       !.raised = exc]
             /\ transcript_list' = transcript_list
             /\ rpc' = "extracted"
             /\ response' = response
    /\ UNCHANGED << url, video_id, languages_param, selection, transcript >>
    /\ UNCHANGED pvars
    /\ UNCHANGED xvars

\* transcript_list = ytt_api.list(video_id): the list, or an exception
ListTranscripts ==
    /\ rpc = "extracted"
    /\ \/ \E tl \in TranscriptLists :
             /\ calls' = [calls EXCEPT !.list = @ + 1]
             /\ transcript_list' = tl
             /\ rpc' = "listed"
             /\ response' = response
       \/ \E exc \in UpstreamErrors :
             /\ calls' = [calls EXCEPT !.list = @ + 1, !.failed = "list",
                                       !.raised = exc]
             /\ transcript_list' = transcript_list
             /\ rpc' = "done"
             /\ response' = ErrorResponse(exc)
    /\ UNCHANGED << url, video_id, languages_param, selection, transcript >>
    /\ UNCHANGED pvars
    /\ UNCHANGED xvars

\* the language selection, with the translate call when it is the translation
\* fallback; translate raising anything is caught and becomes NoTranscriptFound
SelectTranscript ==
    /\ rpc = "listed"
    /\ selection' = select_transcript(languages_param, transcript_list)
    /\ \/ /\ selection'.transcript = 0
          /\ rpc' = "done"
          /\ response' = ErrorResponse("NoTranscriptFound")
          /\ UNCHANGED << transcript, calls >>
       \/ /\ selection'.transcript # 0
          /\ selection'.translate = None
          /\ transcript' =
                [language_code |-> transcript_list[selection'.transcript].language_code,
                 is_generated |-> transcript_list[selection'.transcript].is_generated,
                 translated |-> FALSE]
          /\ rpc' = "selected"
          /\ UNCHANGED << response, calls >>
       \/ /\ selection'.transcript # 0
          /\ selection'.translate # None
          /\ \/ /\ calls' = [calls EXCEPT !.translate = @ + 1]
                /\ transcript' =
                      [language_code |-> selection'.translate[1],
                       is_generated |-> TRUE,
                       translated |-> TRUE]
                /\ rpc' = "selected"
                /\ response' = response
             \/ \E exc \in UpstreamErrors :
                   /\ calls' = [calls EXCEPT !.translate = @ + 1,
                                             !.failed = "translate", !.raised = exc]
                   /\ transcript' = transcript
                   /\ rpc' = "done"
                   /\ response' = ErrorResponse("NoTranscriptFound")
    /\ UNCHANGED << url, video_id, languages_param, transcript_list >>
    /\ UNCHANGED pvars
    /\ UNCHANGED xvars

\* the list of language dicts of the payload
available_languages(tl) ==
    [i \in 1..Len(tl) |->
        [language_code |-> tl[i].language_code,
         is_generated |-> tl[i].is_generated,
         is_translatable |-> tl[i].is_translatable,
         translation_languages |->
            IF tl[i].is_translatable THEN << tl[i].translation_languages >> ELSE None]]

\* fetched_transcript = transcript.fetch(), then the text is joined, chunked
\* and paginated and the payload is returned; or fetch raises
FetchAndRespond ==
    /\ rpc = "selected"
    /\ rpc' = "done"
    /\ \/ \E exc \in UpstreamErrors :
             /\ calls' = [calls EXCEPT !.fetch = @ + 1, !.failed = "fetch",
                                       !.raised = exc]
             /\ response' = ErrorResponse(exc)
             /\ UNCHANGED pvars
       \/ \E snippets \in SnippetLists, pp \in PageParams :
             /\ calls' = [calls EXCEPT !.fetch = @ + 1]
             /\ text' = JoinSpace(snippets)
             /\ size' = pp.chunk_size
             /\ start' = pp.start_index
             /\ max_chunks' = pp.max_chunks
             /\ all_chunks' = chunk_text(text', size')
             /\ page_data' = paginate_chunks(all_chunks', start', max_chunks')
             /\ phase' = phase
             /\ response' =
                   [status |-> 200,
                    video_id |-> video_id[1],
                    total_characters |-> Len(text'),
                    selected_language_code |-> transcript.language_code,
                    is_generated |-> transcript.is_generated,
                    available_languages |-> available_languages(transcript_list),
                    chunks |-> page_data'.chunks,
                    next_index |-> page_data'.next_index,
                    total_chunks |-> page_data'.total_chunks]
    /\ UNCHANGED << url, video_id, languages_param, transcript_list, selection,
                    transcript >>
    /\ UNCHANGED xvars

Next == ExtractVideoId \/ ListTranscripts \/ SelectTranscript \/ FetchAndRespond

Spec == Init /\ [][Next]_vars

\* ------------------------------------------------- chunker and paginator claims

\* the texts of a chunk list, concatenated in list order
RECURSIVE ConcatTexts(_)
ConcatTexts(chunks) ==
    IF Len(chunks) = 0 THEN << >>
    ELSE Head(chunks).text \o ConcatTexts(Tail(chunks))

CeilDiv(a, b) == (a + b - 1) \div b

Chunked == phase \in {"chunked", "paged"}

Paged == phase = "paged"

\* the start the paginator works with, and the length of the chunk list
ClampedStart == Max(0, start)

Total == Len(all_chunks)

\* C1: for a non-empty text and a positive size, the texts of the chunks of
\* chunk_text(text, size), concatenated in index order, are the text itself.
C1_ConcatReproducesText ==
    (Chunked /\ Len(text) > 0 /\ size > 0) =>
        /\ ConcatTexts(all_chunks) = text
        /\ \A k \in 1..Len(all_chunks) : all_chunks[k].index = k - 1

C1_Witness ==
    /\ phase = "chunked"
    /\ Len(text) = 4
    /\ size = 3
    /\ Len(all_chunks) = 2
    /\ all_chunks[1].text \o all_chunks[2].text = text

\* C2: next_index, when present, is the index of the first chunk after the
\* returned page (the clamped start plus the page length), and it is absent
\* exactly when the page reaches the end of the chunk list; for every start
\* and every max_chunks.
C2_NextIndexIsFirstNotIncluded ==
    Paged =>
        /\ page_data.next_index # None =>
              page_data.next_index = Some(ClampedStart + Len(page_data.chunks))
        /\ page_data.next_index = None <=>
              ClampedStart + Len(page_data.chunks) >= Total

\* C2 for max_chunks >= 0 only: what the code does keep
C2_NextIndexNonNegativeMax ==
    (Paged /\ max_chunks >= 0) =>
        /\ page_data.next_index # None =>
              page_data.next_index = Some(ClampedStart + Len(page_data.chunks))
        /\ page_data.next_index = None <=>
              ClampedStart + Len(page_data.chunks) >= Total

\* C7: the page is the slice chunks[s : min(s + max_chunks, total)] with
\* s = max(0, start), read as Python reads a slice (a negative end counts from
\* the end of the list): the chunks from position s on, in the original order;
\* a negative start gives the page of start = 0, and start >= total gives an
\* empty page.
C7_PageIsTheSlice ==
    Paged =>
        LET e  == Min(ClampedStart + max_chunks, Total)
            hi == IF e < 0 THEN Max(0, Total + e) ELSE e
            n  == Max(0, hi - ClampedStart)
        IN  /\ Len(page_data.chunks) = n
            /\ \A i \in 1..n : page_data.chunks[i] = all_chunks[ClampedStart + i]
            /\ start < 0 =>
                  page_data.chunks = paginate_chunks(all_chunks, 0, max_chunks).chunks
            /\ start >= Total => page_data.chunks = << >>

C7_Witness ==
    /\ Paged
    /\ start < 0
    /\ max_chunks = 2
    /\ Total = 3
    /\ page_data.chunks = << all_chunks[1], all_chunks[2] >>

\* C8 as stated: the page holds min(max_chunks, total - start) chunks when
\* start < total, and none otherwise.
C8_PageLengthAsStated ==
    Paged =>
        Len(page_data.chunks) =
            IF start < Total THEN Min(max_chunks, Total - start) ELSE 0

\* C8 amended: with s = max(0, start), for max_chunks >= 0 the page holds
\* min(max_chunks, total - s) chunks when s < total and none otherwise; for
\* max_chunks < 0 it holds max(0, total + max_chunks) chunks when
\* s + max_chunks < 0 and none otherwise.
C8_PageLength ==
    Paged =>
        Len(page_data.chunks) =
            IF max_chunks >= 0
            THEN IF ClampedStart < Total
                 THEN Min(max_chunks, Total - ClampedStart) ELSE 0
            ELSE IF ClampedStart + max_chunks < 0
                 THEN Max(0, Total + max_chunks) ELSE 0

C8_Witness ==
    /\ Paged
    /\ start = 0 - 2
    /\ max_chunks = 4
    /\ Total = 3
    /\ Len(page_data.chunks) = 3

\* C9 as stated: next_index is present if and only if
\* start + max_chunks < total.
C9_NextIndexPresentAsStated ==
    Paged => (page_data.next_index # None <=> start + max_chunks < Total)

\* C9 amended: next_index is present if and only if the chunk list is not
\* empty and max(0, start) + max_chunks < total.
C9_NextIndexPresent ==
    Paged =>
        (page_data.next_index # None <=>
            (Total > 0 /\ ClampedStart + max_chunks < Total))

C9_Witness ==
    /\ Paged
    /\ start = 0 - 1
    /\ max_chunks = 1
    /\ Total = 1
    /\ page_data.next_index = None

\* C10: for a non-empty text and a positive size there are
\* ceil(len(text)/size) chunks; the chunk at position k has index k and holds
\* the characters text[k*size : (k+1)*size]; every chunk but the last has size
\* characters and the last has between 1 and size.
C10_ChunkCountAndContent ==
    (Chunked /\ Len(text) > 0 /\ size > 0) =>
        LET n == Len(all_chunks)
        IN  /\ n = CeilDiv(Len(text), size)
            /\ \A k \in 0..(n - 1) :
                  LET c == all_chunks[k + 1]
                  IN  /\ c.index = k
                      /\ Len(c.text) = Min(size, Len(text) - k * size)
                      /\ \A j \in 1..Len(c.text) : c.text[j] = text[k * size + j]
                      /\ k < n - 1 => Len(c.text) = size
                      /\ k = n - 1 => Len(c.text) \in 1..size

C10_Witness ==
    /\ phase = "chunked"
    /\ Len(text) = 4
    /\ size = 3
    /\ Len(all_chunks) = 2
    /\ all_chunks[1].index = 0
    /\ Len(all_chunks[1].text) = 3
    /\ all_chunks[2].index = 1
    /\ Len(all_chunks[2].text) = 1

\* --------------------------------------------------- language selection claims

\* the selection has run in this request
SelectionRan == selection.rule # "unselected"

\* the request names no language: request.language is None, "" or []
NoLanguageRequested ==
    \/ languages_param.kind = "none"
    \/ languages_param.kind = "str" /\ languages_param.value = ""
    \/ languages_param.kind = "list" /\ languages_param.value = << >>

\* the caller's preference list: a single string is a list of one
Requested ==
    IF languages_param.kind = "str" THEN << languages_param.value >>
    ELSE languages_param.value

\* the least element of a non-empty set of positions
Least(S) == CHOOSE i \in S : \A j \in S : i <= j

Positions == 1..Len(transcript_list)

\* the positions the five rules of the no-language case accept, in rule order
RuleSets ==
    << { i \in Positions : ~transcript_list[i].is_generated
                           /\ transcript_list[i].language_code = "en" },
       { i \in Positions : ~transcript_list[i].is_generated },
       { i \in Positions : transcript_list[i].is_generated
                           /\ transcript_list[i].language_code = "en" },
       { i \in Positions : transcript_list[i].is_generated },
       Positions >>

\* the position chosen by the first rule that succeeds, 0 when none does
PriorityChoice ==
    LET ok == { k \in 1..5 : RuleSets[k] # {} }
    IN  IF ok = {} THEN 0 ELSE Least(RuleSets[Least(ok)])

\* the positions of the variants whose code is a requested code
DirectMatches ==
    { i \in Positions :
        \E k \in 1..Len(Requested) : transcript_list[i].language_code = Requested[k] }

\* the earliest requested code some variant has
EarliestMatchedCode ==
    Requested[Least({ k \in 1..Len(Requested) :
        \E i \in Positions : transcript_list[i].language_code = Requested[k] })]

\* the positions of the translatable variants that can be translated into code
TranslatableInto(code) ==
    { i \in Positions : transcript_list[i].is_translatable
                        /\ code \in transcript_list[i].translation_languages }

\* C3: with no requested language, the variant that is fetched is the one the
\* first successful rule chooses, in the order manual 'en', first manual,
\* generated 'en', first generated, first variant; with only a Spanish generated
\* variant the response has selected_language_code 'es' and is_generated true.
C3_NoLanguagePriority ==
    (SelectionRan /\ NoLanguageRequested) =>
        /\ selection.transcript = PriorityChoice
        /\ calls.translate = 0
        /\ calls.fetch = 1 => PriorityChoice # 0
        /\ response.status = 200 =>
              /\ response.selected_language_code =
                    transcript_list[PriorityChoice].language_code
              /\ response.is_generated = transcript_list[PriorityChoice].is_generated
        /\ ( /\ response.status = 200
             /\ Len(transcript_list) = 1
             /\ transcript_list[1].language_code = "es"
             /\ transcript_list[1].is_generated )
           => (response.selected_language_code = "es" /\ response.is_generated)

C3_Witness ==
    /\ languages_param.kind = "none"
    /\ Len(transcript_list) = 2
    /\ ~transcript_list[1].is_generated
    /\ transcript_list[1].language_code = "es"
    /\ transcript_list[2].is_generated
    /\ transcript_list[2].language_code = "en"
    /\ response.status = 200
    /\ response.selected_language_code = "es"
    /\ ~response.is_generated

\* C4: with requested languages and a variant whose code is a requested code,
\* the variant served is a direct match for the earliest requested code that
\* has one, and translate is not called; a single string is a list of one.
C4_DirectMatchInPreferenceOrder ==
    (SelectionRan /\ ~NoLanguageRequested /\ DirectMatches # {}) =>
        /\ selection.rule = "direct"
        /\ selection.transcript \in DirectMatches
        /\ transcript_list[selection.transcript].language_code = EarliestMatchedCode
        /\ calls.translate = 0
        /\ rpc = "selected" =>
              (~transcript.translated /\ transcript.language_code = EarliestMatchedCode)
        /\ response.status = 200 =>
              response.selected_language_code = EarliestMatchedCode

C4_Witness ==
    /\ languages_param.kind = "list"
    /\ languages_param.value = << "es", "en" >>
    /\ Len(transcript_list) = 2
    /\ transcript_list[1].language_code = "en"
    /\ transcript_list[1].is_translatable
    /\ "es" \in transcript_list[1].translation_languages
    /\ transcript_list[2].language_code = "es"
    /\ response.status = 200
    /\ response.selected_language_code = "es"
    /\ calls.translate = 0

\* C5: with requested languages and no direct match, the first variant in list
\* order that is translatable into the first requested code is translated into
\* that code and the derivative is served; the later requested codes are never
\* translation targets, even when only they can be reached by translation.
C5_TranslationUsesFirstCode ==
    (SelectionRan /\ ~NoLanguageRequested /\ DirectMatches = {}) =>
        /\ selection.translate \in { None, Some(Requested[1]) }
        /\ TranslatableInto(Requested[1]) # {} =>
              /\ selection.rule = "translation"
              /\ selection.transcript = Least(TranslatableInto(Requested[1]))
              /\ selection.translate = Some(Requested[1])
              /\ calls.translate = 1
              /\ rpc = "selected" =>
                    (transcript.translated /\ transcript.language_code = Requested[1])
              /\ response.status = 200 =>
                    response.selected_language_code = Requested[1]
        /\ TranslatableInto(Requested[1]) = {} =>
              /\ selection.transcript = 0
              /\ calls.translate = 0
              /\ response.status # 200

C5_Witness ==
    /\ languages_param = [kind |-> "str", value |-> "en"]
    /\ Len(transcript_list) = 1
    /\ transcript_list[1].language_code = "vi"
    /\ transcript_list[1].is_translatable
    /\ "en" \in transcript_list[1].translation_languages
    /\ calls.translate = 1
    /\ response.status = 200
    /\ response.selected_language_code = "en"

\* a later requested code is reachable by translation, the first is not
C5_WitnessLaterCode ==
    /\ languages_param.kind = "list"
    /\ languages_param.value = << "de", "en" >>
    /\ Len(transcript_list) = 1
    /\ transcript_list[1].language_code = "vi"
    /\ "en" \in transcript_list[1].translation_languages
    /\ selection = NotFound

C6_WitnessEmptyList ==
    /\ NoLanguageRequested
    /\ SelectionRan
    /\ transcript_list = << >>
    /\ response.status = 404

\* ------------------------------------------------------------ request claims

\* the request has selected a variant: transcript is assigned
VariantSelected == transcript # NoTranscript

\* the request has ended with an error response
ErrorResponded == rpc = "done" /\ response.status \in { 400, 403, 404, 500 }

\* C11: a request that selects a variant makes exactly one fetch call, one
\* translate call when the variant comes from the translation fallback and none
\* otherwise, and one list call; no call is made again after it raised, and a
\* call that raises ends the request with an error response.
C11_UpstreamCallsOnce ==
    /\ calls.list <= 1
    /\ calls.translate <= 1
    /\ calls.fetch <= 1
    /\ (rpc = "done" /\ VariantSelected) =>
          /\ calls.list = 1
          /\ calls.fetch = 1
          /\ calls.translate = IF selection.rule = "translation" THEN 1 ELSE 0
    /\ response.status = 200 => (VariantSelected /\ calls.failed = "")
    /\ calls.failed # "" =>
          /\ ErrorResponded
          /\ calls.failed = "list" =>
                (calls.list = 1 /\ calls.translate = 0 /\ calls.fetch = 0)
          /\ calls.failed = "translate" =>
                (calls.list = 1 /\ calls.translate = 1 /\ calls.fetch = 0)
          /\ calls.failed = "fetch" => (calls.list = 1 /\ calls.fetch = 1)

C11_Witness ==
    /\ response.status = 200
    /\ selection.rule = "translation"
    /\ calls = [list |-> 1, translate |-> 1, fetch |-> 1, failed |-> "", raised |-> ""]

\* C12: a failure of no known kind, raised while listing, translating or
\* fetching, gives a 500 response that carries its message.
C12_UnknownFailureGives500 ==
    calls.raised = "Exception" =>
        (rpc = "done" /\ response.status = 500 /\ response.detail = "Exception")

\* C12 away from the translate call: what the except clauses do keep
C12_UnknownFailureOutsideTranslate ==
    (calls.raised = "Exception" /\ calls.failed # "translate") =>
        (rpc = "done" /\ response.status = 500 /\ response.detail = "Exception")

\* the status the claim gives the first failure of a request
ClaimedStatus(exc) ==
    CASE exc = "VideoUnavailable"    -> 404
      [] exc = "TranscriptsDisabled" -> 403
      [] exc = "NoTranscriptFound"   -> 404
      [] exc = "ValueError"          -> 400
      [] OTHER                       -> 500

\* C13: a request ends with one response whose status follows from the first
\* failure met: no video id gives 400 before any call to the transcript source,
\* video unavailable 404, transcripts disabled 403, no transcript found 404,
\* ValueError 400; and an error response carries no chunks.
C13_StatusOfFirstFailure ==
    /\ rpc = "done" <=> response.status # 0
    /\ (rpc # "received" /\ (video_id = None \/ video_id = Some(<< >>))) =>
          /\ response.status = 400
          /\ calls = NoCalls
    /\ calls.failed # "" => response.status = ClaimedStatus(calls.raised)
    /\ (SelectionRan /\ selection.transcript = 0) => response.status = 404
    /\ ErrorResponded => "chunks" \notin DOMAIN response

\* C13 away from the translate call: what the except clauses do keep
C13_StatusOutsideTranslate ==
    /\ rpc = "done" <=> response.status # 0
    /\ (rpc # "received" /\ (video_id = None \/ video_id = Some(<< >>))) =>
          /\ response.status = 400
          /\ calls = NoCalls
    /\ (calls.failed # "" /\ calls.failed # "translate") =>
          response.status = ClaimedStatus(calls.raised)
    /\ (SelectionRan /\ selection.transcript = 0) => response.status = 404
    /\ ErrorResponded => "chunks" \notin DOMAIN response


\* ------------------------------------------------------- the authentication

\* the secrets of the deployments and the tokens of the requests
Keys == { "k1", "k2", "k3" }

\* the Authorization headers of requests: none, or a scheme and credentials
\* (the credentials are empty when the header is the scheme alone)
Headers ==
    { NoHeader } \cup
    [present : { TRUE }, scheme : { "Bearer", "bearer", "Basic" },
     credentials : Keys \cup { "" }]

\* scheme.lower()
Lower(scheme) == IF scheme = "Bearer" THEN "bearer"
                 ELSE IF scheme = "Basic" THEN "basic" ELSE scheme

\* HTTPBearer() with auto_error left at its default: a request without the
\* header, without scheme or credentials, or with another scheme is refused
\* before the dependant runs
bearer_accepts(header) ==
    /\ header.present
    /\ header.scheme # ""
    /\ header.credentials # ""
    /\ Lower(header.scheme) = "bearer"

\* the status of the refusal by HTTPBearer: 403, and 401 in later releases
\* of the framework
BearerRefusals == { 401, 403 }

\* verify_api_key(credentials), which runs after HTTPBearer has accepted
verify_api_key(key, header) ==
    IF key = "" THEN TRUE
    ELSE header.credentials = key

\* a request for POST /func_ytb_caption has arrived
AuthInit ==
    /\ rpc = "arrived"
    /\ API_KEY \in { "" } \cup Keys
    /\ authorization \in Headers
    /\ url \in Urls
    /\ languages_param = NoLanguage
    /\ video_id = None
    /\ transcript_list = << >>
    /\ selection = Unselected
    /\ transcript = NoTranscript
    /\ calls = NoCalls
    /\ response = NoResponse
    /\ phase = "request"
    /\ text = << >>
    /\ size = 0
    /\ all_chunks = << >>
    /\ start = 0
    /\ max_chunks = 0
    /\ page_data = NoPage
    /\ client = NoClient
    /\ reqs = << >>

\* Depends(verify_api_key), which depends on security: the request reaches
\* get_youtube_caption or is refused
Authenticate ==
    /\ rpc = "arrived"
    /\ IF ~bearer_accepts(authorization)
       THEN /\ rpc' = "done"
            /\ \E st \in BearerRefusals :
                  response' = [status |-> st, detail |-> "Not authenticated"]
       ELSE IF ~verify_api_key(API_KEY, authorization)
       THEN /\ rpc' = "done"
            /\ response' = [status |-> 401, detail |-> "Invalid API key"]
       ELSE /\ rpc' = "received"
            /\ response' = response
    /\ UNCHANGED << url, video_id, languages_param, transcript_list, selection,
                    transcript, calls >>
    /\ UNCHANGED pvars
    /\ UNCHANGED xvars

AuthNext == Authenticate \/ ExtractVideoId

AuthSpec == AuthInit /\ [][AuthNext]_vars

\* the request was handed to get_youtube_caption
Processed ==
    \/ rpc \in { "received", "extracted" }
    \/ rpc = "done" /\ response.detail = "HTTPException400"

\* the request was refused by the authentication
Refused == rpc = "done" /\ response.detail \in { "Not authenticated", "Invalid API key" }

\* the request carries a bearer token that is the configured secret
MatchingToken == bearer_accepts(authorization) /\ authorization.credentials = API_KEY

\* C14: with API_KEY configured a request is processed only with a matching
\* bearer token and is answered 401 otherwise; with API_KEY not configured
\* every request is processed, with or without an Authorization header
C14_AuthenticationAsStated ==
    rpc # "arrived" =>
        IF API_KEY # ""
        THEN IF MatchingToken THEN Processed
             ELSE Refused /\ response.status = 401
        ELSE Processed

\* what the code guarantees: a request with a well-formed bearer header is
\* processed exactly when no secret is configured or the token matches
C14_WellFormedHeader ==
    (rpc # "arrived" /\ bearer_accepts(authorization)) =>
        IF API_KEY = "" \/ MatchingToken THEN Processed
        ELSE Refused /\ response.status = 401

\* a request without the header was refused although no secret is configured
C14_Witness ==
    /\ API_KEY = ""
    /\ authorization = NoHeader
    /\ Refused


\* ------------------------------------------------ the extractor on its own

\* the hostnames urlparse reports ("" when the url has none)
Hostnames ==
    { "youtu.be", "www.youtube.com", "youtube.com", "m.youtube.com",
      "example.com", "" }

\* the paths of urls
Paths ==
    { << >>, << "/" >>, << "/", "/" >>, << "/", "x" >>, << "/", "/", "x" >>,
      << "/", "x", "/" >> }

\* the values of the query parameter v, as parse_qs lists them: blank values
\* are dropped, so every value has a character
QueryValues == { << >>, << << "x" >> >>, << << "y" >>, << "x" >> >> }

\* the urls a request can carry
ExtractUrls ==
    { NoUrl } \cup
    [given : { TRUE }, parses : BOOLEAN, hostname : Hostnames, path : Paths,
     v : QueryValues]

\* a request with any url has reached get_youtube_caption
ExtractInit ==
    /\ rpc = "received"
    /\ url \in ExtractUrls
    /\ languages_param = NoLanguage
    /\ video_id = None
    /\ transcript_list = << >>
    /\ selection = Unselected
    /\ transcript = NoTranscript
    /\ calls = NoCalls
    /\ response = NoResponse
    /\ phase = "request"
    /\ text = << >>
    /\ size = 0
    /\ all_chunks = << >>
    /\ start = 0
    /\ max_chunks = 0
    /\ page_data = NoPage
    /\ API_KEY = ""
    /\ authorization = BearerHeader("k1")
    /\ client = NoClient
    /\ reqs = << >>

ExtractNext == ExtractVideoId

ExtractSpec == ExtractInit /\ [][ExtractNext]_vars

\* extract_video_id has returned
Extracted == rpc \in { "extracted", "done" }

\* the url is one urlparse reads and its host is h
HostIs(h) == url.given /\ url.parses /\ url.hostname = h

\* the characters of the path from the first that is not a slash
PathAfterSlashes ==
    LET rest == { i \in 1..Len(url.path) : url.path[i] # "/" }
        first == IF rest = {} THEN Len(url.path) + 1
                 ELSE CHOOSE i \in rest : \A j \in rest : i <= j
    IN  SubSeq(url.path, first, Len(url.path))

\* the id the rules of the extractor give, None when extraction fails
RuleId ==
    IF HostIs("youtu.be") THEN Some(PathAfterSlashes)
    ELSE IF HostIs("youtube.com") \/ HostIs("www.youtube.com")
         THEN IF url.v = << >> THEN None ELSE Some(url.v[1])
    ELSE None

\* C15 as stated: the result is a non-empty id or the 'not extractable'
\* value, by the rules of the hosts
C15_ExtractedIdAsStated ==
    Extracted =>
        /\ video_id = RuleId
        /\ video_id = None \/ Len(video_id[1]) > 0

\* C15: the result is the id by the rules of the hosts or the 'not
\* extractable' value; the id is empty exactly for a youtu.be url whose path
\* has nothing but slashes, and the caller then answers 400 as it does for
\* the 'not extractable' value
C15_ExtractedId ==
    Extracted =>
        /\ video_id = RuleId
        /\ (video_id # None /\ Len(video_id[1]) = 0)
              <=> (HostIs("youtu.be") /\ \A i \in 1..Len(url.path) : url.path[i] = "/")
        /\ (video_id = None \/ Len(video_id[1]) = 0)
              <=> (rpc = "done" /\ response.status = 400)

\* a short url with two leading slashes gave its id
C15_Witness ==
    /\ Extracted
    /\ HostIs("youtu.be")
    /\ url.path = << "/", "/", "x" >>
    /\ video_id = Some(<< "x" >>)

\* a short url without an id gave the empty id and was answered 400
C15_WitnessEmptyId ==
    /\ Extracted
    /\ HostIs("youtu.be")
    /\ url.path = << "/" >>
    /\ video_id = Some(<< >>)
    /\ response.status = 400


\* ------------------------------------------- the chunker's and pager's edges

\* C16: chunk_text returns the empty sequence, and returns, whenever the text
\* is empty or size <= 0
C16_EmptyTextOrSizeGivesNoChunks ==
    /\ phase = "text" => ENABLED ChunkText
    /\ (Chunked /\ (Len(text) = 0 \/ size <= 0)) => all_chunks = << >>

\* a text with characters and a negative size gave no chunk
C16_Witness ==
    /\ Chunked
    /\ Len(text) > 0
    /\ size < 0
    /\ all_chunks = << >>

\* an empty text and a positive size gave no chunk
C16_WitnessEmptyText ==
    /\ Chunked
    /\ Len(text) = 0
    /\ size > 0
    /\ all_chunks = << >>

\* C17: total_chunks is the length of the full chunk sequence for every
\* start and max_chunks; for the empty sequence the page is empty, next_index
\* absent and total_chunks 0
C17_TotalChunksIsLength ==
    Paged =>
        /\ page_data.total_chunks = Len(all_chunks)
        /\ all_chunks = << >> =>
              page_data = [chunks |-> << >>, next_index |-> None, total_chunks |-> 0]

\* a start beyond the end gave an empty page with the full count
C17_Witness ==
    /\ Paged
    /\ Len(all_chunks) >= 2
    /\ start > Len(all_chunks)
    /\ page_data.chunks = << >>
    /\ page_data.total_chunks = Len(all_chunks)

\* a negative start gave a page shorter than the full count
C17_WitnessNegativeStart ==
    /\ Paged
    /\ start < 0
    /\ Len(page_data.chunks) >= 1
    /\ Len(page_data.chunks) < page_data.total_chunks


\* ------------------------------------------- a client that follows next_index

\* a chunk sequence and a max_chunks >= 1 are fixed; the client is about to
\* ask for the page at start = 0
ClientInit ==
    /\ phase = "client"
    /\ text \in Texts
    /\ size \in 1..MaxSize
    /\ all_chunks = chunk_text(text, size)
    /\ max_chunks \in 1..MaxChunks
    /\ start = 0
    /\ page_data = NoPage
    /\ client = NoClient
    /\ rpc = "idle"
    /\ url = NoUrl
    /\ video_id = None
    /\ languages_param = NoLanguage
    /\ transcript_list = << >>
    /\ selection = Unselected
    /\ transcript = NoTranscript
    /\ calls = NoCalls
    /\ response = NoResponse
    /\ API_KEY = ""
    /\ authorization = NoHeader
    /\ reqs = << >>

\* the client calls paginate_chunks(all_chunks, start, max_chunks), keeps the
\* page, and goes on from next_index unless it is absent
ClientCall ==
    /\ phase = "client"
    /\ page_data' = paginate_chunks(all_chunks, start, max_chunks)
    /\ client' = [calls      |-> client.calls + 1,
                  start_used |-> start,
                  pages      |-> Append(client.pages, page_data'.chunks)]
    /\ IF page_data'.next_index = None
       THEN /\ phase' = "finished"
            /\ start' = start
       ELSE /\ phase' = phase
            /\ start' = page_data'.next_index[1]
    /\ UNCHANGED << text, size, all_chunks, max_chunks >>
    /\ UNCHANGED rvars
    /\ UNCHANGED << API_KEY, authorization, reqs >>

ClientNext == ClientCall

ClientSpec == ClientInit /\ [][ClientNext]_vars

\* the pages in call order, one after the other
RECURSIVE ConcatPages(_)
ConcatPages(pages) ==
    IF Len(pages) = 0 THEN << >> ELSE Head(pages) \o ConcatPages(Tail(pages))

\* the number of calls the claim gives
ClaimedCalls == Max(1, CeilDiv(Total, max_chunks))

\* C19: the client stops after exactly max(1, ceil(total / max_chunks))
\* calls, every next_index is greater than the start that produced it, and
\* the pages in call order give the full chunk sequence
C19_ClientReadsEveryChunkOnce ==
    /\ client.calls <= ClaimedCalls
    /\ phase = "client" => ENABLED ClientCall
    /\ (client.calls >= 1 /\ page_data.next_index # None) =>
          page_data.next_index[1] > client.start_used
    /\ phase = "client" => ConcatPages(client.pages) = SubSeq(all_chunks, 1, start)
    /\ phase = "finished" =>
          /\ client.calls = ClaimedCalls
          /\ ConcatPages(client.pages) = all_chunks
          /\ \A k \in 1..Len(all_chunks) : ConcatPages(client.pages)[k].index = k - 1

\* three chunks were read in two calls of at most two chunks
C19_Witness ==
    /\ phase = "finished"
    /\ Total = 3
    /\ max_chunks = 2
    /\ client.calls = 2
    /\ Len(client.pages[1]) = 2
    /\ Len(client.pages[2]) = 1

\* the empty chunk sequence was read in one call
C19_WitnessEmpty ==
    /\ phase = "finished"
    /\ Total = 0
    /\ client.calls = 1
    /\ client.pages = << << >> >>


\* ------------------------------------------------------ the last-resort rule

\* the four rules before the last resort all fail on the list
EarlierRulesFail == \A k \in 1..4 : RuleSets[k] = {}

\* C20: without a requested language the last-resort rule never decides:
\* when the four earlier rules all fail, the list is empty and the request
\* fails with "no transcript found"
C20_LastResortNeverDecides ==
    /\ selection.rule # "any"
    /\ (SelectionRan /\ NoLanguageRequested /\ EarlierRulesFail) =>
          /\ transcript_list = << >>
          /\ selection = NotFound
          /\ transcript = NoTranscript
          /\ rpc = "done"
          /\ response = ErrorResponse("NoTranscriptFound")

\* the four earlier rules failed and the request ended with 404
C20_Witness ==
    /\ SelectionRan
    /\ NoLanguageRequested
    /\ EarlierRulesFail
    /\ selection.rule = "none"
    /\ calls.list = 1
    /\ calls.fetch = 0
    /\ response.status = 404

\* the rule before the last resort decided: a single auto-generated variant
\* that is not English
C20_WitnessAnyGenerated ==
    /\ SelectionRan
    /\ NoLanguageRequested
    /\ selection.rule = "any_generated"
    /\ Len(transcript_list) = 1
    /\ transcript_list[1].language_code # "en"


\* ------------------------------------------------------ concurrent requests

\* the requests that are handled at the same time
RequestIds == { 1, 2 }

\* the urls, languages, transcript lists and exceptions of these requests
ConcUrls ==
    { [given |-> TRUE, parses |-> TRUE, hostname |-> "youtu.be",
       path |-> << "/", "x" >>, v |-> << >>],
      [given |-> TRUE, parses |-> TRUE, hostname |-> "example.com",
       path |-> << "/", "x" >>, v |-> << >>] }

ConcLanguages == { NoLanguage, [kind |-> "str", value |-> "en"] }

ConcLists ==
    { << >>,
      << [language_code |-> "en", is_generated |-> FALSE,
          is_translatable |-> FALSE, translation_languages |-> {}] >>,
      << [language_code |-> "es", is_generated |-> TRUE,
          is_translatable |-> TRUE, translation_languages |-> { "en" }] >> }

ConcErrors == { "TranscriptsDisabled", "Exception" }

\* no answer of the transcript source yet
NoAnswer == [called |-> FALSE, raised |-> "", value |-> << >>]

\* the transcript source returned value
Returned(value) == [called |-> TRUE, raised |-> "", value |-> value]

\* the transcript source raised exc
Raised(exc) == [called |-> TRUE, raised |-> exc, value |-> << >>]

\* the frame of a call of get_youtube_caption that has just begun: the
\* request's parameters, its locals, and the answers the transcript source
\* gave to its calls
NewFrame(u, lp, pp) ==
    [pc |-> "received", url |-> u, languages_param |-> lp, params |-> pp,
     video_id |-> None, transcript_list |-> << >>, selection |-> Unselected,
     transcript |-> NoTranscript, response |-> NoResponse,
     listed |-> NoAnswer, translated |-> NoAnswer, fetched |-> NoAnswer]

\* a mutation of transcript_list_of: every request reads the list of request 1
transcript_list_of_first(rs, r) == rs[1].transcript_list

\* the local transcript_list of request r
transcript_list_of(rs, r) == rs[r].transcript_list

\* the payload of a successful request
Payload(vid, tr, tl, full_text, pp) ==
    LET page == paginate_chunks(chunk_text(full_text, pp.chunk_size),
                                pp.start_index, pp.max_chunks)
    IN  [status |-> 200,
         video_id |-> vid,
         total_characters |-> Len(full_text),
         selected_language_code |-> tr.language_code,
         is_generated |-> tr.is_generated,
         available_languages |-> available_languages(tl),
         chunks |-> page.chunks,
         next_index |-> page.next_index,
         total_chunks |-> page.total_chunks]

ConcInit ==
    /\ reqs \in [RequestIds ->
                   { NewFrame(u, lp, pp) :
                       u \in ConcUrls, lp \in ConcLanguages, pp \in PageParams }]
    /\ phase = "concurrent"
    /\ text = << >>
    /\ size = 0
    /\ all_chunks = << >>
    /\ start = 0
    /\ max_chunks = 0
    /\ page_data = NoPage
    /\ rpc = "idle"
    /\ url = NoUrl
    /\ video_id = None
    /\ languages_param = NoLanguage
    /\ transcript_list = << >>
    /\ selection = Unselected
    /\ transcript = NoTranscript
    /\ calls = NoCalls
    /\ response = NoResponse
    /\ API_KEY = ""
    /\ authorization = NoHeader
    /\ client = NoClient

\* nothing but the frames of the requests changes
ConcFrame ==
    /\ UNCHANGED pvars
    /\ UNCHANGED rvars
    /\ UNCHANGED << API_KEY, authorization, client >>

\* request r: video_id = extract_video_id(request.url), or the 400
HandleExtract(r) ==
    /\ reqs[r].pc = "received"
    /\ LET vid == extract_video_id(reqs[r].url)
       IN  reqs' = [reqs EXCEPT ![r] =
              IF vid = None \/ vid = Some(<< >>)
              THEN [@ EXCEPT !.pc = "done", !.video_id = vid,
                             !.response = ErrorResponse("HTTPException400")]
              ELSE [@ EXCEPT !.pc = "extracted", !.video_id = vid]]
    /\ ConcFrame

\* request r: transcript_list = ytt_api.list(video_id)
HandleList(r) ==
    /\ reqs[r].pc = "extracted"
    /\ \/ \E tl \in ConcLists :
             reqs' = [reqs EXCEPT ![r] =
                [@ EXCEPT !.pc = "listed", !.transcript_list = tl,
                          !.listed = Returned(tl)]]
       \/ \E exc \in ConcErrors :
             reqs' = [reqs EXCEPT ![r] =
                [@ EXCEPT !.pc = "done", !.listed = Raised(exc),
                          !.response = ErrorResponse(exc)]]
    /\ ConcFrame

\* request r: the language selection, with the translate call
HandleSelect(r) ==
    /\ reqs[r].pc = "listed"
    /\ LET tl == transcript_list_of(reqs, r)
           sel == select_transcript(reqs[r].languages_param, tl)
       IN  IF sel.transcript = 0
           THEN reqs' = [reqs EXCEPT ![r] =
                   [@ EXCEPT !.pc = "done", !.selection = sel,
                             !.response = ErrorResponse("NoTranscriptFound")]]
           ELSE IF sel.translate = None
           THEN reqs' = [reqs EXCEPT ![r] =
                   [@ EXCEPT !.pc = "selected", !.selection = sel,
                             !.transcript =
                                [language_code |-> tl[sel.transcript].language_code,
                                 is_generated |-> tl[sel.transcript].is_generated,
                                 translated |-> FALSE]]]
           ELSE \/ reqs' = [reqs EXCEPT ![r] =
                      [@ EXCEPT !.pc = "selected", !.selection = sel,
                                !.translated = Returned(sel.translate),
                                !.transcript =
                                   [language_code |-> sel.translate[1],
                                    is_generated |-> TRUE,
                                    translated |-> TRUE]]]
                \/ \E exc \in ConcErrors :
                      reqs' = [reqs EXCEPT ![r] =
                         [@ EXCEPT !.pc = "done", !.selection = sel,
                                   !.translated = Raised(exc),
                                   !.response = ErrorResponse("NoTranscriptFound")]]
    /\ ConcFrame

\* request r: fetch, join, chunk, paginate and return the payload
HandleFetch(r) ==
    /\ reqs[r].pc = "selected"
    /\ \/ \E exc \in ConcErrors :
             reqs' = [reqs EXCEPT ![r] =
                [@ EXCEPT !.pc = "done", !.fetched = Raised(exc),
                          !.response = ErrorResponse(exc)]]
       \/ \E snippets \in SnippetLists :
             reqs' = [reqs EXCEPT ![r] =
                [@ EXCEPT !.pc = "done", !.fetched = Returned(snippets),
                          !.response =
                             Payload(reqs[r].video_id[1], reqs[r].transcript,
                                     transcript_list_of(reqs, r),
                                     JoinSpace(snippets), reqs[r].params)]]
    /\ ConcFrame

ConcNext ==
    \E r \in RequestIds :
        HandleExtract(r) \/ HandleList(r) \/ HandleSelect(r) \/ HandleFetch(r)

ConcSpec == ConcInit /\ [][ConcNext]_vars


\* the response of a request handled alone, from its own parameters and the
\* answers the transcript source gave to its own calls
Alone(q) ==
    LET vid == extract_video_id(q.url)
        tl  == q.listed.value
        sel == select_transcript(q.languages_param, tl)
        tr  == IF sel.translate = None
               THEN [language_code |-> tl[sel.transcript].language_code,
                     is_generated |-> tl[sel.transcript].is_generated,
                     translated |-> FALSE]
               ELSE [language_code |-> sel.translate[1], is_generated |-> TRUE,
                     translated |-> TRUE]
    IN  IF vid = None \/ vid = Some(<< >>) THEN ErrorResponse("HTTPException400")
        ELSE IF q.listed.raised # "" THEN ErrorResponse(q.listed.raised)
        ELSE IF sel.transcript = 0 THEN ErrorResponse("NoTranscriptFound")
        ELSE IF q.translated.raised # "" THEN ErrorResponse("NoTranscriptFound")
        ELSE IF q.fetched.raised # "" THEN ErrorResponse(q.fetched.raised)
        ELSE Payload(vid[1], tr, tl, JoinSpace(q.fetched.value), q.params)

\* the step changes the frame of one request and of no other
OneFrameChanges ==
    \E r \in RequestIds : \A o \in RequestIds \ { r } : reqs'[o] = reqs[o]

\* C18: under every interleaving the response of each request is the one it
\* gets alone, and no step of a request writes the frame of another
C18_RequestsAreIndependent ==
    /\ [](\A r \in RequestIds :
             reqs[r].pc = "done" => reqs[r].response = Alone(reqs[r]))
    /\ [][OneFrameChanges]_vars

\* two requests for different lists were interleaved and answered differently
C18_Witness ==
    /\ reqs[1].pc = "done"
    /\ reqs[2].pc = "done"
    /\ reqs[1].response.status = 200
    /\ reqs[2].response.status = 404
    /\ reqs[1].listed.value # << >>
    /\ reqs[2].listed = Returned(<< >>)

====
